---- MODULE Spec2Model ----
(***************************************************************************)
(* Model of src/src/process_unix.cpp (Mozart++ process engine, POSIX):     *)
(* create_process_impl / child_proc (fork, descriptor arrangement, sweep,  *)
(* chdir, exec search), close_process, wait_for, terminate_process and     *)
(* process_exited, together with the part of the kernel they talk to       *)
(* (descriptor tables, wait statuses, signals, SIGCHLD disposition).       *)
(***************************************************************************)
EXTENDS Integers, Sequences, FiniteSets, TLC

\* ------------------------------------------------------------------ bounds
\* highest descriptor number that may already be open before the pipes are made
PreMax == 4
\* number of threads of the original process that may call wait_for
NumWaiters == 2
\* how many close_process calls are followed
MaxCloses == 2
\* how many unrelated descriptors the original process opens after spawn
MaxOther == 2
\* longest search path (number of candidate directories)
MaxPath == 2
\* longest value of the PATH entry (characters)
MaxLen == 3
\* longest command line (number of arguments, the command name included)
MaxArgs == 4

\* ------------------------------------------------------- program constants
FD_INVALID == 0 - 1
STDIN_FILENO == 0
STDOUT_FILENO == 1
STDERR_FILENO == 2
FAIL_FILENO == STDERR_FILENO + 1
SIGKILL == 9
SIGSEGV == 11
SIGTERM == 15
\* WEXITSTATUS is 8 bits wide, WTERMSIG 7 bits; signals are 1..31
MaxExit == 255
MaxSig == 31

\* descriptor numbers of a process: enough for the pre-opened ones, six pipe
\* ends, one late file and one unrelated open
MaxFd == PreMax + 9
Fds == 0..MaxFd
\* sysconf(_SC_OPEN_MAX)
OPEN_MAX == MaxFd + 1

Closed == "closed"
Streams == {"in", "out", "err"}
RD == [in |-> "in_r", out |-> "out_r", err |-> "err_r"]
WR == [in |-> "in_w", out |-> "out_w", err |-> "err_w"]
TARGET == [in |-> "in_t", out |-> "out_t", err |-> "err_t"]
NoPair == [read |-> FD_INVALID, write |-> FD_INVALID]

\* ------------------------------------------------ kernel: descriptor table
IsOpen(t, fd) == fd \in Fds /\ t[fd] # Closed

Min(S) == CHOOSE x \in S : \A y \in S : x <= y

\* open(), pipe(), opendir(): the lowest free descriptor number
LowestFree(t) == Min({fd \in Fds : t[fd] = Closed})

\* close(fd): EBADF leaves the table alone
close(t, fd) == IF IsOpen(t, fd) THEN [t EXCEPT ![fd] = Closed] ELSE t

\* dup2(old, new): EBADF when old is not open (new is then untouched),
\* nothing when old = new, else new refers to old's description
dup2(t, old, new) ==
    IF ~IsOpen(t, old) THEN t
    ELSE IF old = new THEN t
    ELSE [t EXCEPT ![new] = t[old]]

\* the descriptions a process holds open
Held(t) == {t[fd] : fd \in Fds} \ {Closed}

\* mpp_impl::close_fd(fd_type &fd) on the table: the descriptor is closed
\* unless it is FD_INVALID (the caller then sets the slot to FD_INVALID)
close_fd(t, fd) == IF fd = FD_INVALID THEN t ELSE close(t, fd)

\* -------------------------------------------- caller: the three StreamPipes
\* a pipe for a stream piped to the parent, the caller's target in both
\* slots for a redirected one
OpenStream(t, s, redirected) ==
    IF redirected
    THEN LET fd == LowestFree(t)
         IN  [t |-> [t EXCEPT ![fd] = TARGET[s]],
              p |-> [read |-> fd, write |-> fd]]
    ELSE LET r  == LowestFree(t)
             t1 == [t EXCEPT ![r] = RD[s]]
             w  == LowestFree(t1)
         IN  [t |-> [t1 EXCEPT ![w] = WR[s]],
              p |-> [read |-> r, write |-> w]]

\* the original process's table and pipe arrays right before
\* create_process_impl: `pre` are the descriptors open before, the stderr
\* pipe is not made when the outputs are merged, `late` opens one more file
Layout(pre, redir, merge, late) ==
    LET t0 == [fd \in Fds |-> IF fd \in pre
                              THEN (IF fd <= STDERR_FILENO THEN "tty" ELSE "file")
                              ELSE Closed]
        a  == OpenStream(t0, "in", redir["in"])
        b  == OpenStream(a.t, "out", redir["out"])
        c  == IF merge THEN [t |-> b.t, p |-> NoPair]
              ELSE OpenStream(b.t, "err", redir["err"])
        t3 == IF late THEN [c.t EXCEPT ![LowestFree(c.t)] = "file"] ELSE c.t
    IN  [fds |-> t3, pipes |-> [in |-> a.p, out |-> b.p, err |-> c.p]]

\* ------------------------------------------------------------------ state
VARIABLES
    cfg,        \* process_startup: merge_outputs, redirected(), _cmdline[0], PATH length,
                \* whether _env has entries, and whether the allocator's lock is
                \* held by another thread at fork()
    sigIgn,     \* the disposition of SIGCHLD in the original process is SIG_IGN
    pfds,       \* descriptor table of the original process
    ppipes,     \* pstdin, pstdout, pstderr as the original process sees them
    info,       \* process_info
    spawned,    \* "no", "ok" (create_process_impl returned), "failed" (it threw)
    cfds,       \* descriptor table of the duplicated process
    cpipes,     \* pstdin, pstdout, pstderr in the duplicated process's memory
    cpc,        \* where the duplicated process is in child_proc (or after it)
    proc,       \* kernel's view of the child: "none", "alive", "zombie", "gone"
    cstatus,    \* wait status of the terminated child
    argv,       \* the argument array child_proc builds
    search,     \* mpp_execvpe's loop: dirs index, errno, sticky_errno
    preSweep,   \* descriptor table of the child when the sweep started
    pending,    \* signal sent by terminate_process and not yet delivered
    pidReused,  \* the child's pid now names an unrelated process
    waiter,     \* the threads calling wait_for
    polls,      \* process_exited calls: how many, what the last one saw and returned
    sup,        \* other calls on the handle: terminate_process, close_process, opens
    hist,       \* what the calls did: closes, descriptors released, kill on a live child
    penv,       \* the PATH entry of the environment effective_pathv reads
    rv,         \* one run of effective_pathv: sizes, the block, the bytes written
    sh,         \* one run of execve_or_shebang on an argument array
    ex          \* one run of mpp_execvpe's search loop, with what each candidate gave

launchVars == <<cfg, pfds, ppipes, info, spawned, cfds, cpipes, cpc, argv, search, preSweep>>
kernelVars == <<sigIgn, proc, cstatus, pending, pidReused>>
superVars  == <<waiter, polls, sup, hist>>
unitVars   == <<penv, rv, sh, ex>>
vars == <<launchVars, kernelVars, superVars, unitVars>>

ChildPid == 1000
NoPid == 0

Errnos == {"EACCES", "ENOENT", "ENOTDIR", "ELOOP", "ESTALE", "ENODEV",
           "ETIMEDOUT", "ENOEXEC", "ENAMETOOLONG", "EIO"}
NoSearch == [i |-> 0, errno |-> "none", sticky |-> "none"]
AllClosed == [fd \in Fds |-> Closed]

\* command names: empty, with a path separator, bare
Files == {"", "./prog", "prog"}
HasSlash(file) == file = "./prog"

\* ------------------------------------------------------------ effective_pathv
\* strings are sequences of characters; NUL is the terminating byte
NUL == "nul"
PathChars == {":", "/", "a"}
Strings(n) == UNION {[1..k -> PathChars] : k \in 0..n}

\* line 82
default_path_env == <<":", "/", "b", "i", "n", ":", "/", "u", "s", "r", "/", "b", "i", "n">>

\* the PATH entry of the environment: not there, or there with a value
NoEnv == [set |-> FALSE, val |-> <<>>]
Envs == {NoEnv} \cup {[set |-> TRUE, val |-> v] : v \in Strings(MaxLen)}

\* get_path_env falling back on an empty value as well
get_path_envOrEmpty(env) ==
    IF env.set /\ env.val # <<>> THEN env.val ELSE default_path_env

\* lines 85-88: getenv gives nullptr only when the entry is not there
get_path_env(env) ==
    IF env.set THEN env.val ELSE default_path_env

\* pointers: a base object and a byte offset into it
NULLPTR == [base |-> "null", off |-> 0]
DotLiteral == [base |-> "dot", off |-> 0]
Uninit == [base |-> "uninit", off |-> 0]
BlockPtr(off) == [base |-> "block", off |-> off]

\* sizeof(const char *)
PtrSize == 8

\* line 93: string_ref(path).count(':')
CountChar(s, c) == Cardinality({k \in 1..Len(s) : s[k] = c})

\* line 102: `pathv + pathvsize` with pathv a `const char **`: the
\* addition counts in pointers, not in bytes
PtrAdd(off, n) == off + PtrSize * n

\* strcspn(p, ":") on the bytes `mem`, p being the index k: the number of
\* bytes before the first ':' or the terminator
strcspn(mem, k) == Min({j \in 0..(Len(mem) - k) : mem[k + j] \in {":", NUL}})

\* the string a char pointer at index k of `mem` points to
CString(mem, k) ==
    LET n == Min({j \in 0..(Len(mem) - k) : mem[k + j] = NUL})
    IN  SubSeq(mem, k, k + n - 1)

\* the bytes of pointer slot i of the block
SlotBytes(i) == (PtrSize * i)..(PtrSize * i + PtrSize - 1)

\* line 108 keeping an empty component as it is
SplitSlotKeepEmpty(p, sep) == BlockPtr(p)

\* line 108: pathv[i] = (p == sep) ? "." : p
SplitSlot(p, sep) == IF p = sep THEN DotLiteral ELSE BlockPtr(p)

NoRun == [pc |-> "idle", path |-> <<>>, count |-> 0, pathvsize |-> 0, pathsize |-> 0,
          p0 |-> 0, p |-> 0, i |-> 0, chars |-> <<>>, pathv |-> <<>>,
          written |-> {}, ret |-> NULLPTR]

\* lines 91-100: the sizes and malloc(pathvsize + pathsize), which may fail
PathvStart ==
    /\ rv.pc = "idle"
    /\ LET path      == get_path_env(penv)
           count     == CountChar(path, ":") + 1
           pathvsize == PtrSize * (count + 1)
           pathsize  == Len(path) + 1
           r == [NoRun EXCEPT !.path = path, !.count = count,
                              !.pathvsize = pathvsize, !.pathsize = pathsize,
                              !.pathv = [k \in 1..(count + 1) |-> Uninit]]
       IN  \E ok \in BOOLEAN :
             rv' = IF ok THEN [r EXCEPT !.pc = "copy"]
                   ELSE [r EXCEPT !.pc = "returned", !.ret = NULLPTR]
    /\ UNCHANGED <<launchVars, kernelVars, superVars, penv, sh, ex>>

\* lines 102-103: p and memcpy(p, path, pathsize)
PathvCopy ==
    /\ rv.pc = "copy"
    /\ LET p0 == PtrAdd(0, rv.pathvsize)
       IN  rv' = [rv EXCEPT !.pc = "split", !.p0 = p0, !.p = p0,
                            !.chars = rv.path \o <<NUL>>,
                            !.written = p0..(p0 + rv.pathsize - 1)]
    /\ UNCHANGED <<launchVars, kernelVars, superVars, penv, sh, ex>>

\* the copy reaches past the end of the block: the bytes there may belong to
\* no mapping at all, and the write then ends the process with SIGSEGV
PathvFault ==
    /\ rv.pc = "copy"
    /\ PtrAdd(0, rv.pathvsize) + rv.pathsize > rv.pathvsize + rv.pathsize
    /\ rv' = [rv EXCEPT !.pc = "fault", !.p0 = PtrAdd(0, rv.pathvsize)]
    /\ UNCHANGED <<launchVars, kernelVars, superVars, penv, sh, ex>>

\* lines 107-112: one turn of the loop
PathvSplit ==
    /\ rv.pc = "split"
    /\ rv.i < rv.count
    /\ LET k   == rv.p - rv.p0 + 1
           sep == rv.p + strcspn(rv.chars, k)
       IN  rv' = [rv EXCEPT !.pathv[rv.i + 1] = SplitSlot(rv.p, sep),
                            !.chars[sep - rv.p0 + 1] = NUL,
                            !.p = sep + 1,
                            !.i = @ + 1,
                            !.written = @ \cup SlotBytes(rv.i) \cup {sep}]
    /\ UNCHANGED <<launchVars, kernelVars, superVars, penv, sh, ex>>

\* lines 113-114
PathvReturn ==
    /\ rv.pc = "split"
    /\ rv.i = rv.count
    /\ rv' = [rv EXCEPT !.pc = "returned",
                        !.pathv[rv.count + 1] = NULLPTR,
                        !.written = @ \cup SlotBytes(rv.count),
                        !.ret = BlockPtr(0)]
    /\ UNCHANGED <<launchVars, kernelVars, superVars, penv, sh, ex>>

\* what a char pointer of the returned vector points to
Deref(r, ptr) ==
    IF ptr.base = "dot" THEN <<".">>
    ELSE CString(r.chars, ptr.off - r.p0 + 1)

\* the candidate prefixes of the returned vector, up to its terminator
Prefixes(r) == [k \in 1..r.count |-> Deref(r, r.pathv[k])]

\* ------------------------------------------------------ execve_or_shebang
\* what a slot of the argument array (or of the stack next to it) holds
ArgCell(i) == [k |-> "arg", i |-> i]
NullCell == [k |-> "null", i |-> 0]
ShCell == [k |-> "/bin/sh", i |-> 0]
FileCell == [k |-> "file", i |-> 0]
StackCell == [k |-> "stack", i |-> 0]

\* line 269: char *argv[asize + 1]
ArgvCapacity(asize) == asize + 1

\* lines 269-279: the array child_proc fills, indices 0..capacity-1, and the
\* word of the stack right above it
BuildArgv(asize) ==
    [k \in 0..ArgvCapacity(asize) |->
        IF k < asize THEN ArgCell(k)
        ELSE IF k = asize THEN NullCell
        ELSE StackCell]

\* lines 125-128: end - argv
NullIndex(mem) == Min({k \in DOMAIN mem : mem[k] = NullCell})

\* memmove(argv + dst, argv + src, cnt * sizeof(*end))
memmove(mem, dst, src, cnt) ==
    [k \in DOMAIN mem |->
        IF k >= dst /\ k < dst + cnt THEN mem[k - dst + src] ELSE mem[k]]

\* the argument vector execve reads: the slots up to the first nullptr
Vector(mem) == [k \in 0..NullIndex(mem) |-> mem[k]]

\* line 146 falling back after any failure
NeedsShellAnyError(e) == e # "ok"

\* line 146: errno == ENOEXEC
NeedsShell(e) == e = "ENOEXEC"

NoShift == [pc |-> "idle", n |-> 0, cap |-> 0, mem |-> <<>>, before |-> <<>>,
            end |-> 0, e1 |-> "none", e2 |-> "none", touched |-> {}, seen |-> <<>>]

\* ------------------------------------------- mpp_execvpe's loop on its own
NoExec == [pc |-> "idle", dirs |-> <<>>, sr |-> NoSearch, log |-> <<>>]

InitInfo == [pid |-> NoPid, stdin |-> FD_INVALID, stdout |-> FD_INVALID,
             stderr |-> FD_INVALID, tid |-> FD_INVALID]

\* the state right before create_process_impl is called, for the given
\* sets of pre-opened descriptors and of redirections; `helds` tells whether
\* another thread of the original process may hold the allocator's lock at
\* the moment of fork(), and then whether startup._env has entries is followed
InitProcess(preSets, redirs, lates, helds) ==
    /\ \E pre \in preSets, redir \in redirs, merge \in BOOLEAN, late \in lates,
          file \in Files, n \in 1..MaxPath, held \in helds,
          env \in (IF helds = {FALSE} THEN {TRUE} ELSE BOOLEAN) :
         /\ (file = "prog" \/ n = 1)
         /\ cfg = [merge |-> merge, redir |-> redir, file |-> file, npath |-> n,
                 pre |-> pre, late |-> late, heapHeld |-> held, hasEnv |-> env]
         /\ LET l == Layout(pre, redir, merge, late)
            IN  pfds = l.fds /\ ppipes = l.pipes
    /\ sigIgn \in BOOLEAN
    /\ info = InitInfo
    /\ spawned = "no"
    /\ cfds = AllClosed
    /\ cpipes = [s \in Streams |-> NoPair]
    /\ cpc = "none"
    /\ proc = "none"
    /\ cstatus = 0
    /\ argv = <<>>
    /\ search = NoSearch
    /\ preSweep = AllClosed
    /\ pending = 0
    /\ pidReused = FALSE
    /\ waiter = [w \in 1..NumWaiters |-> [pc |-> "idle", ret |-> 0, how |-> "none"]]
    /\ polls = [called |-> FALSE, saw |-> "none", waited |-> FALSE, ret |-> FALSE]
    /\ sup = [closes |-> 0, others |-> 0]
    /\ hist = [released |-> <<>>, ebadf |-> FALSE, killedLive |-> FALSE, force |-> FALSE,
               sig |-> 0, early |-> FALSE, reused |-> FALSE]

\* the same, with no run of the resolver or of the adapter on its own
InitWith(preSets, redirs, lates) ==
    /\ InitProcess(preSets, redirs, lates, {FALSE})
    /\ penv = NoEnv
    /\ rv = NoRun
    /\ sh = NoShift
    /\ ex = NoExec

StdOpen == {0, 1, 2}
NoRedir == [s \in Streams |-> FALSE]

\* every layout: any set of descriptors open before, any redirection
InitLaunch == InitWith(SUBSET (0..PreMax), [Streams -> BOOLEAN], BOOLEAN)
\* the usual layout: standard streams open, piped streams
Init == InitWith({StdOpen}, {NoRedir}, {FALSE})
\* standard streams open (and possibly descriptor 3), any redirection
InitStd == InitWith({StdOpen, StdOpen \cup {FAIL_FILENO}}, [Streams -> BOOLEAN], BOOLEAN)
\* ------------------------------------------------- create_process_impl
\* lines 333-363: the original process closes the ends it does not use
\* and fills the handle
ParentAfterFork(pid, t, p, inf) ==
    LET t1 == IF ~cfg.redir["in"] THEN close_fd(t, p["in"].read) ELSE t
        p1 == IF ~cfg.redir["in"] THEN [p EXCEPT !["in"].read = FD_INVALID] ELSE p
        t2 == IF ~cfg.redir["out"] THEN close_fd(t1, p1["out"].write) ELSE t1
        p2 == IF ~cfg.redir["out"] THEN [p1 EXCEPT !["out"].write = FD_INVALID] ELSE p1
        cl == ~cfg.merge /\ ~cfg.redir["err"]
        t3 == IF cl THEN close_fd(t2, p2["err"].write) ELSE t2
        p3 == IF cl THEN [p2 EXCEPT !["err"].write = FD_INVALID] ELSE p2
    IN  [ok |-> pid >= 0, fds |-> t3, pipes |-> p3,
         info |-> [pid |-> pid, stdin |-> p3["in"].write,
                   stdout |-> p3["out"].read, stderr |-> p3["err"].read,
                   tid |-> FD_INVALID]]

\* ParentSide without the test of line 325
ParentSideNoCheck(pid, t, p, inf) == ParentAfterFork(pid, t, p, inf)

\* lines 324-364: the original process after fork() returned pid: throws
\* before touching anything when pid < 0
ParentSide(pid, t, p, inf) ==
    IF pid < 0
    THEN [ok |-> FALSE, fds |-> t, pipes |-> p, info |-> inf]
    ELSE ParentAfterFork(pid, t, p, inf)

\* fork() and the original process's side of create_process_impl; the
\* duplicated process starts child_proc with a copy of the table and arrays
Spawn ==
    /\ spawned = "no"
    /\ \E pid \in {FD_INVALID, ChildPid} :
         LET r == ParentSide(pid, pfds, ppipes, info)
         IN  /\ pfds' = r.fds
             /\ ppipes' = r.pipes
             /\ info' = r.info
             /\ spawned' = IF r.ok THEN "ok" ELSE "failed"
             /\ IF pid < 0
                THEN UNCHANGED <<cfds, cpipes, cpc, proc>>
                ELSE /\ cfds' = pfds
                     /\ cpipes' = ppipes
                     /\ cpc' = "close_unused"
                     /\ proc' = "alive"
    /\ UNCHANGED <<unitVars, cfg, argv, search, preSweep, sigIgn, cstatus, pending, pidReused, superVars>>

\* ---------------------------------------------------------------- child_proc
\* a step of the duplicated process that only touches its own memory and table
ChildStep(from, to, t, p) ==
    /\ proc = "alive"
    /\ cpc = from
    /\ cpc' = to
    /\ cfds' = t
    /\ cpipes' = p
    /\ UNCHANGED <<unitVars, cfg, pfds, ppipes, info, spawned, argv, search, preSweep,
                   kernelVars, superVars>>

\* lines 235-240: close the ends the child does not use
CloseUnused(t, p) ==
    LET t1 == IF ~cfg.redir["in"] THEN close_fd(t, p["in"].write) ELSE t
        p1 == IF ~cfg.redir["in"] THEN [p EXCEPT !["in"].write = FD_INVALID] ELSE p
        t2 == IF ~cfg.redir["out"] THEN close_fd(t1, p1["out"].read) ELSE t1
        p2 == IF ~cfg.redir["out"] THEN [p1 EXCEPT !["out"].read = FD_INVALID] ELSE p1
    IN  [fds |-> t2, pipes |-> p2]

ChildCloseUnused ==
    LET r == CloseUnused(cfds, cpipes)
    IN  ChildStep("close_unused", "dup_std", r.fds, r.pipes)

\* lines 242-243
DupStd(t, p) == dup2(dup2(t, p["in"].read, STDIN_FILENO), p["out"].write, STDOUT_FILENO)

ChildDupStd == ChildStep("dup_std", "stderr", DupStd(cfds, cpipes), cpipes)

\* lines 251-260
DupStderr(t, p) ==
    IF cfg.merge
    THEN [fds |-> dup2(t, p["out"].write, STDERR_FILENO), pipes |-> p]
    ELSE LET cl == ~cfg.redir["err"]
             t1 == IF cl THEN close_fd(t, p["err"].read) ELSE t
             p1 == IF cl THEN [p EXCEPT !["err"].read = FD_INVALID] ELSE p
         IN  [fds |-> dup2(t1, p1["err"].write, STDERR_FILENO), pipes |-> p1]

ChildStderr ==
    LET r == DupStderr(cfds, cpipes)
    IN  ChildStep("stderr", "close_orig", r.fds, r.pipes)

\* lines 262-264
CloseOrig(t, p) ==
    LET t1 == close_fd(t, p["in"].read)
        t2 == close_fd(t1, p["out"].write)
        t3 == close_fd(t2, p["err"].write)
    IN  [fds |-> t3,
         pipes |-> [p EXCEPT !["in"].read = FD_INVALID, !["out"].write = FD_INVALID,
                             !["err"].write = FD_INVALID]]

ChildCloseOrig ==
    LET r == CloseOrig(cfds, cpipes)
    IN  ChildStep("close_orig", "vectors", r.fds, r.pipes)

\* operator new / malloc in the duplicated process: the allocator's lock is
\* a copy of the original's; when a thread that does not exist in the child
\* held it at fork(), the call never returns
AfterAlloc(held, to) == IF held THEN "alloc_wait" ELSE to

\* lines 266-293: argv[asize + 1], terminated; envs and buffer allocate for
\* every entry of _env (lines 282-289)
ChildVectors ==
    /\ proc = "alive"
    /\ cpc = "vectors"
    /\ cpc' = IF cfg.hasEnv THEN AfterAlloc(cfg.heapHeld, "sweep") ELSE "sweep"
    /\ argv' = <<cfg.file, "NULL">>
    /\ UNCHANGED <<unitVars, cfg, pfds, ppipes, info, spawned, cfds, cpipes, search, preSweep,
                   kernelVars, superVars>>

\* close a set of descriptors
RECURSIVE CloseAll(_, _)
CloseAll(t, S) ==
    IF S = {} THEN t
    ELSE LET fd == Min(S) IN CloseAll(close(t, fd), S \ {fd})

\* close_all_descriptors (lines 44-76) when opendir succeeds: close 4 and 5,
\* open the directory on the lowest free number, close every listed number
\* >= 6, close the directory
SweepScan(t) ==
    LET from_fd == FAIL_FILENO + 1
        t1 == close(close(t, from_fd), from_fd + 1)
        dp == LowestFree(t1)
        t2 == [t1 EXCEPT ![dp] = "dir"]
        listed == {fd \in Fds : IsOpen(t2, fd)}
        t3 == CloseAll(t2, {fd \in listed : fd >= from_fd + 2})
    IN  close(t3, dp)

\* lines 57-62 and 296-306: opendir fails after 4 and 5 were closed, then
\* every number from FAIL_FILENO + 1 up to the ceiling is closed
SweepFallback(t) ==
    LET from_fd == FAIL_FILENO + 1
        t1 == close(close(t, from_fd), from_fd + 1)
    IN  CloseAll(t1, {fd \in Fds : fd >= FAIL_FILENO + 1 /\ fd < OPEN_MAX})

ChildSweep ==
    /\ proc = "alive"
    /\ cpc = "sweep"
    /\ cpc' = "chdir"
    /\ preSweep' = cfds
    /\ \E scan \in BOOLEAN :
         cfds' = IF scan THEN SweepScan(cfds) ELSE SweepFallback(cfds)
    /\ UNCHANGED <<unitVars, cfg, pfds, ppipes, info, spawned, cpipes, argv, search,
                   kernelVars, superVars>>

\* lines 308-311: a failed chdir throws; the exception leaves child_proc and
\* create_process_impl and unwinds into the caller's code, in the child
ChdirNext(ok) == IF ok THEN "exec" ELSE "escaped"

ChildChdir ==
    /\ \E ok \in BOOLEAN : ChildStep("chdir", ChdirNext(ok), cfds, cpipes)

\* ------------------------------------------------------ kernel: termination
\* wait statuses as the kernel encodes them
ExitStatus(c) == c * 256
SigStatus(s, core) == s + (IF core THEN 128 ELSE 0)

\* the child terminates at position `at` with wait status `st`: its
\* descriptors are closed; it stays a zombie unless SIGCHLD is ignored, in
\* which case the kernel discards it at once
Dies(at, st) ==
    /\ proc = "alive"
    /\ proc' = IF sigIgn THEN "gone" ELSE "zombie"
    /\ cstatus' = st
    /\ cpc' = at
    /\ cfds' = AllClosed
    /\ search' = [NoSearch EXCEPT !.i = search.i]
    /\ pending' = 0
    /\ UNCHANGED <<unitVars, cfg, pfds, ppipes, info, spawned, cpipes, argv, preSweep,
                   sigIgn, pidReused, superVars>>

\* a step of mpp_execvpe that stays in the child
ExecStep(from, to, sr) ==
    /\ proc = "alive"
    /\ cpc = from
    /\ cpc' = to
    /\ search' = sr
    /\ UNCHANGED <<unitVars, cfg, pfds, ppipes, info, spawned, cfds, cpipes, argv, preSweep,
                   kernelVars, superVars>>

\* ----------------------------------------------------------------- mpp_execvpe
\* execve_or_shebang (lines 143-149): e1 is what execve(file) gives, e2 what
\* execve("/bin/sh") gives; "ok" is an image replacement, else the errno left
execve_or_shebang(e1, e2) ==
    IF e1 = "ok" THEN "ok"
    ELSE IF e1 = "ENOEXEC" THEN e2
    ELSE e1

ExecResults == {"ok"} \cup Errnos

\* the outcomes of one execve_or_shebang call
Attempts == {execve_or_shebang(e1, e2) : e1 \in ExecResults, e2 \in ExecResults}

\* the switch of lines 199-221: TRUE when the search goes on
TryNext(e) == e \in {"EACCES", "ENOENT", "ENOTDIR", "ELOOP", "ESTALE", "ENODEV", "ETIMEDOUT"}

\* lines 160-163: empty name
ChildExecEmpty ==
    /\ argv # <<>> /\ argv[1] = ""
    /\ ExecStep("exec", "exec_failed", [search EXCEPT !.errno = "ENOENT"])

\* lines 165-166: the name holds a separator
ChildExecDirect ==
    /\ argv # <<>> /\ HasSlash(argv[1])
    /\ \E r \in Attempts :
         ExecStep("exec", IF r = "ok" THEN "running" ELSE "exec_failed",
                  [search EXCEPT !.errno = IF r = "ok" THEN "none" ELSE r])

\* lines 170-175: effective_pathv calls malloc (line 96); it returned and
\* its block is usable
ChildPathv ==
    /\ argv # <<>> /\ argv[1] # "" /\ ~HasSlash(argv[1])
    /\ ExecStep("exec", AfterAlloc(cfg.heapHeld, "search"),
                IF cfg.heapHeld THEN search
                ELSE [i |-> 1, errno |-> "none", sticky |-> "none"])

\* lines 96-113 and 177: effective_pathv writes past the block it allocated
\* (or malloc gave nullptr and line 177 reads through it): the child may be
\* killed by SIGSEGV
ChildPathvCrash ==
    /\ cpc = "exec" /\ pending # SIGKILL
    /\ ~cfg.heapHeld
    /\ argv # <<>> /\ argv[1] # "" /\ ~HasSlash(argv[1])
    /\ \E core \in BOOLEAN : Dies("dead", SigStatus(SIGSEGV, core))

\* lines 177-222: one candidate directory
TryCandidate(sr, r) ==
    IF r = "ok" THEN [to |-> "running", sr |-> NoSearch]
    ELSE IF TryNext(r)
    THEN [to |-> "search",
          sr |-> [i |-> sr.i + 1, errno |-> r,
                  sticky |-> IF r = "EACCES" THEN r ELSE sr.sticky]]
    ELSE [to |-> "exec_failed", sr |-> [sr EXCEPT !.errno = r]]

ChildTry ==
    /\ cpc = "search" /\ search.i <= cfg.npath
    /\ \E r \in Attempts :
         LET n == TryCandidate(search, r)
         IN  ExecStep("search", n.to, n.sr)

\* lines 180-183: candidate too long, skipped
ChildTryTooLong ==
    /\ cpc = "search" /\ search.i <= cfg.npath
    /\ ExecStep("search", "search", [search EXCEPT !.i = @ + 1, !.errno = "ENAMETOOLONG"])

\* the loop's end leaving errno as the last candidate set it
SearchEndLast(sr) == sr

\* lines 224-227: candidates exhausted
SearchEnd(sr) == [sr EXCEPT !.errno = IF sr.sticky # "none" THEN sr.sticky ELSE @]

ChildSearchEnd ==
    /\ cpc = "search" /\ search.i > cfg.npath
    /\ ExecStep("search", "exec_failed", SearchEnd(search))

\* ------------------------------------- execve_or_shebang on its own
\* line 144: execve(file, argv, envp)
ShDirect ==
    /\ sh.pc = "call"
    /\ \E e \in ExecResults :
         sh' = [sh EXCEPT !.e1 = e,
                          !.pc = IF e = "ok" THEN "replaced"
                                 ELSE IF NeedsShell(e) THEN "shift"
                                 ELSE "returned"]
    /\ UNCHANGED <<launchVars, kernelVars, superVars, penv, rv, ex>>

\* lines 124-131: the vector is moved one slot up in place
ShShift ==
    /\ sh.pc = "shift"
    /\ LET end == NullIndex(sh.mem)
           m1  == memmove(sh.mem, 2, 1, end)
       IN  sh' = [sh EXCEPT !.pc = "shexec",
                            !.end = end,
                            !.mem = [m1 EXCEPT ![0] = ShCell, ![1] = FileCell],
                            !.touched = @ \cup (0..(end + 1))]
    /\ UNCHANGED <<launchVars, kernelVars, superVars, penv, rv, ex>>

\* the move writes past the array's last slot: the word there may not be
\* writable, and the process then ends with SIGSEGV
ShFault ==
    /\ sh.pc = "shift"
    /\ NullIndex(sh.mem) + 1 >= sh.cap
    /\ sh' = [sh EXCEPT !.pc = "fault", !.touched = @ \cup (0..(NullIndex(sh.mem) + 1))]
    /\ UNCHANGED <<launchVars, kernelVars, superVars, penv, rv, ex>>

\* line 132: execve("/bin/sh", argv, envp)
ShExec ==
    /\ sh.pc = "shexec"
    /\ \E e \in ExecResults :
         sh' = [sh EXCEPT !.e2 = e,
                          !.pc = IF e = "ok" THEN "replaced" ELSE "restore",
                          !.seen = Vector(sh.mem)]
    /\ UNCHANGED <<launchVars, kernelVars, superVars, penv, rv, ex>>

\* lines 135-136: the vector is moved back and argv[0] restored
ShRestore ==
    /\ sh.pc = "restore"
    /\ LET m1 == memmove(sh.mem, 1, 2, sh.end)
       IN  sh' = [sh EXCEPT !.pc = "returned",
                            !.mem = [m1 EXCEPT ![0] = sh.before[0]],
                            !.touched = @ \cup (0..(sh.end + 1))]
    /\ UNCHANGED <<launchVars, kernelVars, superVars, penv, rv, ex>>


\* <climits>
PATH_MAX == 4096
ProgName == <<"p", "r", "o", "g">>
\* lengths of the candidate directories: short, the longest that fits, the
\* shortest that does not
DirLens == {1, PATH_MAX - Len(ProgName) - 3, PATH_MAX - Len(ProgName) - 2}
Dirs(n) == UNION {[1..k -> DirLens] : k \in 1..n}

\* line 180
TooLong(filelen, dirlen) == filelen + dirlen + 2 >= PATH_MAX

\* lines 180-183: the candidate does not fit absolute_path
SearchSkip ==
    /\ ex.pc = "loop"
    /\ ex.sr.i <= Len(ex.dirs)
    /\ TooLong(Len(ProgName), ex.dirs[ex.sr.i])
    /\ ex' = [ex EXCEPT !.sr = [@ EXCEPT !.i = @ + 1, !.errno = "ENAMETOOLONG"],
                        !.log = Append(@, "skipped")]
    /\ UNCHANGED <<launchVars, kernelVars, superVars, penv, rv, sh>>

\* lines 185-222: the candidate is handed to execve_or_shebang
SearchTry ==
    /\ ex.pc = "loop"
    /\ ex.sr.i <= Len(ex.dirs)
    /\ ~TooLong(Len(ProgName), ex.dirs[ex.sr.i])
    /\ \E r \in Attempts :
         LET n == TryCandidate(ex.sr, r)
         IN  ex' = [ex EXCEPT !.pc = CASE n.to = "running" -> "replaced"
                                        [] n.to = "search"  -> "loop"
                                        [] OTHER            -> "returned",
                              !.sr = n.sr,
                              !.log = Append(@, r)]
    /\ UNCHANGED <<launchVars, kernelVars, superVars, penv, rv, sh>>

\* lines 122-137 under child_proc's array: the shift of the interpreter
\* fallback writes past the array and the process may end with SIGSEGV
SearchFault ==
    /\ ex.pc = "loop"
    /\ ex.sr.i <= Len(ex.dirs)
    /\ ~TooLong(Len(ProgName), ex.dirs[ex.sr.i])
    /\ ex' = [ex EXCEPT !.pc = "fault"]
    /\ UNCHANGED <<launchVars, kernelVars, superVars, penv, rv, sh>>

\* lines 224-228: the candidates are exhausted
SearchFinish ==
    /\ ex.pc = "loop"
    /\ ex.sr.i > Len(ex.dirs)
    /\ ex' = [ex EXCEPT !.pc = "returned", !.sr = SearchEnd(@)]
    /\ UNCHANGED <<launchVars, kernelVars, superVars, penv, rv, sh>>

\* the shell's "command not found" status instead of line 317's
ExecFailedStatusShell == ExitStatus(127)

\* line 317: mpp_execvpe returned
ExecFailedStatus == ExitStatus(1)

ChildExit1 ==
    /\ cpc = "exec_failed" /\ pending # SIGKILL
    /\ Dies("exit1", ExecFailedStatus)

\* the program that replaced the image (or the caller's code the exception
\* escaped into) exits with code c
ProgExit(c) ==
    /\ cpc \in {"running", "escaped"} /\ pending # SIGKILL
    /\ Dies("dead", ExitStatus(c))

\* a signal from elsewhere kills the child, wherever it is
ProgSignal(s, core) ==
    /\ pending # SIGKILL
    /\ Dies("dead", SigStatus(s, core))

\* lines 122-137: execve_without_shebang shifts argv one slot up in place;
\* child_proc's array has no spare slot, so the shift writes past its end and
\* the child may be killed by SIGSEGV instead of going on
ChildShebangCrash ==
    /\ pending # SIGKILL
    /\ argv # <<>>
    /\ \/ cpc = "exec" /\ HasSlash(argv[1])
       \/ cpc = "search" /\ search.i <= cfg.npath
    /\ \E core \in BOOLEAN : Dies("dead", SigStatus(SIGSEGV, core))

\* ------------------------------------------------------------ terminate_process
\* line 407 with the two signals swapped
TermSignalSwapped(force) == IF force THEN SIGTERM ELSE SIGKILL

\* line 407
TermSignal(force) == IF force THEN SIGKILL ELSE SIGTERM

\* kill(pid, sig) on the child: a live child gets the signal pending (an
\* uncatchable SIGKILL is never replaced), a zombie or a collected child
\* is left as it is
Terminate(force) ==
    /\ spawned = "ok"
    /\ LET sig == TermSignal(force)
       IN  /\ pending' = IF proc = "alive" /\ pending # SIGKILL THEN sig ELSE pending
           /\ hist' = [hist EXCEPT !.force = force, !.sig = sig,
                                   !.killedLive = @ \/ (force /\ proc = "alive"),
                                   !.early = @ \/ (force /\ proc = "alive" /\
                                        \E w \in 1..NumWaiters : waiter[w].pc = "blocked")]
    /\ UNCHANGED <<unitVars, launchVars, sigIgn, proc, cstatus, pidReused, waiter, polls, sup>>

\* delivery of the pending signal: SIGKILL always kills, SIGTERM kills
\* unless the child catches or ignores it
Deliver ==
    /\ pending # 0
    /\ \/ Dies("dead", SigStatus(pending, FALSE))
       \/ /\ pending # SIGKILL
          /\ proc = "alive"
          /\ pending' = 0
          /\ UNCHANGED <<unitVars, launchVars, sigIgn, proc, cstatus, pidReused, superVars>>

\* the kernel gives the collected child's pid to an unrelated process
PidReuse ==
    /\ proc = "gone"
    /\ ~pidReused
    /\ pidReused' = TRUE
    /\ UNCHANGED <<unitVars, launchVars, sigIgn, proc, cstatus, pending, superVars>>

\* ---------------------------------------------------------------------- wait_for
\* lines 386-403: WIFEXITED / WEXITSTATUS / WIFSIGNALED / WTERMSIG
WIFEXITED(st) == st % 128 = 0
WEXITSTATUS(st) == (st \div 256) % 256
WTERMSIG(st) == st % 128
WIFSIGNALED(st) == WTERMSIG(st) >= 1 /\ WTERMSIG(st) <= 126

\* the historical Solaris value for a signalled child: the bare signal number
ExitOutcomeBareSignal(st) ==
    IF WIFEXITED(st) THEN WEXITSTATUS(st)
    ELSE IF WIFSIGNALED(st) THEN WTERMSIG(st)
    ELSE st

ExitOutcome(st) ==
    IF WIFEXITED(st) THEN WEXITSTATUS(st)
    ELSE IF WIFSIGNALED(st) THEN 128 + WTERMSIG(st)
    ELSE st

\* lines 376-383 without the ECHILD case
WaitErrnoNoEchild(e) ==
    CASE e = "EINTR"  -> [retry |-> TRUE, ret |-> 0]
      [] OTHER        -> [retry |-> FALSE, ret |-> 0 - 1]

\* lines 376-383: what wait_for returns when waitpid fails with errno e
\* ("retry" stands for going round the loop again)
WaitErrno(e) ==
    CASE e = "ECHILD" -> [retry |-> FALSE, ret |-> 0]
      [] e = "EINTR"  -> [retry |-> TRUE, ret |-> 0]
      [] OTHER        -> [retry |-> FALSE, ret |-> 0 - 1]

\* a thread enters wait_for and blocks in waitpid(pid, &status, 0)
WaitCall(w) ==
    /\ spawned = "ok"
    /\ waiter[w].pc = "idle"
    /\ waiter' = [waiter EXCEPT ![w].pc = "blocked"]
    /\ UNCHANGED <<unitVars, launchVars, kernelVars, polls, sup, hist>>

\* waitpid is interrupted by a signal handler while the child is alive:
\* the loop calls it again
WaitEintr(w) ==
    /\ waiter[w].pc = "blocked"
    /\ proc = "alive"
    /\ LET r == WaitErrno("EINTR")
       IN  waiter' = [waiter EXCEPT ![w].pc = IF r.retry THEN "blocked" ELSE "done",
                                    ![w].ret = r.ret,
                                    ![w].how = IF r.retry THEN "none" ELSE "error"]
    /\ UNCHANGED <<unitVars, launchVars, kernelVars, polls, sup, hist>>

\* waitpid returns: with the status of the zombie, which it collects, or
\* with ECHILD when there is no such child any more
WaitReturn(w) ==
    /\ waiter[w].pc = "blocked"
    /\ \/ /\ proc = "zombie"
          /\ proc' = "gone"
          /\ waiter' = [waiter EXCEPT ![w].pc = "done", ![w].how = "collected",
                                      ![w].ret = ExitOutcome(cstatus)]
       \/ /\ proc = "gone"
          /\ proc' = proc
          /\ LET r == WaitErrno("ECHILD")
             IN  waiter' = [waiter EXCEPT ![w].pc = IF r.retry THEN "blocked" ELSE "done",
                                          ![w].how = "echild",
                                          ![w].ret = r.ret]
    /\ UNCHANGED <<unitVars, launchVars, sigIgn, cstatus, pending, pidReused, polls, sup, hist>>

\* ---------------------------------------------------------------- process_exited
\* stat("/proc/<pid>") finds an entry
ProcPathExists == proc \in {"alive", "zombie"} \/ pidReused

\* lines 416-419 and 424-427: the two throws of process_exited; with WNOHANG
\* and a valid signal number the kernel gives neither
PollThrows(result, errno, sigactionOk) ==
    result = 0 - 1 /\ (errno # "ECHILD" \/ ~sigactionOk)

\* process_exited taking "no such child" for termination without looking
\* at the disposition of SIGCHLD
process_exitedNoProc(result, ign, exists) ==
    IF result = 0 - 1 THEN TRUE ELSE result = 0

\* lines 414-460: result is what waitpid(pid, nullptr, WNOHANG) returned
\* (0: not changed state, the pid: collected, -1: ECHILD)
process_exited(result, ign, exists) ==
    IF result = 0 - 1
    THEN (IF ign THEN ~exists ELSE TRUE)
    ELSE result = 0

Poll ==
    /\ spawned = "ok"
    /\ LET result == CASE proc = "alive"  -> 0
                       [] proc = "zombie" -> info.pid
                       [] OTHER           -> 0 - 1
       IN  polls' = [called |-> TRUE, saw |-> proc,
                     waited |-> \E w \in 1..NumWaiters : waiter[w].pc # "idle",
                     ret |-> process_exited(result, sigIgn, ProcPathExists)]
    /\ proc' = IF proc = "zombie" THEN "gone" ELSE proc
    /\ UNCHANGED <<unitVars, launchVars, sigIgn, cstatus, pending, pidReused, waiter, sup, hist>>

\* ----------------------------------------------------------------- close_process
\* close_process calling close() on the three numbers and leaving the
\* handle's fields as they are
close_processRaw(t, inf) ==
    LET t1 == close(t, inf.stdin)
        t2 == close(t1, inf.stdout)
        t3 == close(t2, inf.stderr)
        Rel(tt, fd) == IF IsOpen(tt, fd) THEN <<[fd |-> fd, d |-> tt[fd]]>> ELSE <<>>
        Bad(tt, fd) == fd # FD_INVALID /\ ~IsOpen(tt, fd)
    IN  [fds |-> t3,
         info |-> inf,
         released |-> Rel(t, inf.stdin) \o Rel(t1, inf.stdout) \o Rel(t2, inf.stderr),
         ebadf |-> Bad(t, inf.stdin) \/ Bad(t1, inf.stdout) \/ Bad(t2, inf.stderr)]

\* lines 367-371: close_fd on the three retained descriptors, each then
\* FD_INVALID; `released` lists the descriptions closed, `ebadf` tells
\* whether a close hit a number that was not open
close_process(t, inf) ==
    LET t1 == close_fd(t, inf.stdin)
        t2 == close_fd(t1, inf.stdout)
        t3 == close_fd(t2, inf.stderr)
        Rel(tt, fd) == IF IsOpen(tt, fd) THEN <<[fd |-> fd, d |-> tt[fd]]>> ELSE <<>>
        Bad(tt, fd) == fd # FD_INVALID /\ ~IsOpen(tt, fd)
    IN  [fds |-> t3,
         info |-> [inf EXCEPT !.stdin = FD_INVALID, !.stdout = FD_INVALID,
                              !.stderr = FD_INVALID],
         released |-> Rel(t, inf.stdin) \o Rel(t1, inf.stdout) \o Rel(t2, inf.stderr),
         ebadf |-> Bad(t, inf.stdin) \/ Bad(t1, inf.stdout) \/ Bad(t2, inf.stderr)]

Close ==
    /\ spawned = "ok"
    /\ sup.closes < MaxCloses
    /\ sup' = [sup EXCEPT !.closes = @ + 1]
    /\ LET r == close_process(pfds, info)
       IN  /\ pfds' = r.fds
           /\ info' = r.info
           /\ hist' = [hist EXCEPT !.released = @ \o r.released,
                                   !.ebadf = @ \/ r.ebadf]
    /\ UNCHANGED <<unitVars, cfg, ppipes, spawned, cfds, cpipes, cpc, argv, search, preSweep,
                   kernelVars, waiter, polls>>

\* the original process opens an unrelated file: lowest free number
OtherOpen ==
    /\ spawned = "ok"
    /\ sup.others < MaxOther
    /\ sup' = [sup EXCEPT !.others = @ + 1]
    /\ pfds' = [pfds EXCEPT ![LowestFree(pfds)] = "other"]
    /\ hist' = [hist EXCEPT !.reused = @ \/ \E k \in 1..Len(hist.released) :
                                                hist.released[k].fd = LowestFree(pfds)]
    /\ UNCHANGED <<unitVars, cfg, ppipes, info, spawned, cfds, cpipes, cpc, argv, search, preSweep,
                   kernelVars, waiter, polls>>

\* ------------------------------------------------------------- specifications
\* exit codes and signals followed where the value itself is not the matter
ExitSample == {0, MaxExit}
SigSample == {MaxSig}

Launch ==
    \/ Spawn
    \/ ChildCloseUnused
    \/ ChildDupStd
    \/ ChildStderr
    \/ ChildCloseOrig
    \/ ChildVectors
    \/ ChildSweep
    \/ ChildChdir
    \/ ChildExecEmpty
    \/ ChildExecDirect
    \/ ChildPathv
    \/ ChildPathvCrash
    \/ ChildTry
    \/ ChildTryTooLong
    \/ ChildSearchEnd
    \/ ChildShebangCrash
    \/ ChildExit1

Waits ==
    \/ \E w \in 1..NumWaiters : WaitCall(w)
    \/ \E w \in 1..NumWaiters : WaitEintr(w)
    \/ \E w \in 1..NumWaiters : WaitReturn(w)

\* the life of one child and the supervisor's calls on its handle
Next ==
    \/ Launch
    \/ Waits
    \/ Poll
    \/ \E force \in BOOLEAN : Terminate(force)
    \/ Deliver
    \/ PidReuse
    \/ \E c \in ExitSample : ProgExit(c)
    \/ \E s \in SigSample, core \in BOOLEAN : ProgSignal(s, core)

Spec == Init /\ [][Next]_vars

\* the launch alone, over every descriptor layout
SpecLaunch == InitLaunch /\ [][Launch]_vars

\* the launch alone, with the standard streams open in the original process
SpecStd == InitStd /\ [][Launch]_vars

\* every exit code and every signal, collected by wait_for
NextStatus ==
    \/ Launch
    \/ Waits
    \/ \E c \in 0..MaxExit : ProgExit(c)
    \/ \E s \in 1..MaxSig, core \in BOOLEAN : ProgSignal(s, core)

SpecStatus == Init /\ [][NextStatus]_vars

\* the handle's descriptors: spawn, close_process, unrelated opens
NextClose ==
    \/ Launch
    \/ Close
    \/ OtherOpen

SpecClose == InitStd /\ [][NextClose]_vars

\* one launch configuration, for the runs of a single function
InitQuiet ==
    /\ InitProcess({StdOpen}, {NoRedir}, {FALSE}, {FALSE})
    /\ ~sigIgn /\ ~cfg.merge /\ cfg.file = ""

\* effective_pathv on every PATH entry
InitPath ==
    /\ InitQuiet
    /\ penv \in Envs
    /\ rv = NoRun
    /\ sh = NoShift
    /\ ex = NoExec
    /\ ex = NoExec

NextPath ==
    \/ PathvStart
    \/ PathvCopy
    \/ PathvFault
    \/ PathvSplit
    \/ PathvReturn

SpecPath == InitPath /\ [][NextPath]_vars

\* mpp_execvpe's loop over every list of candidate lengths
InitSearch ==
    /\ InitQuiet
    /\ penv = NoEnv
    /\ rv = NoRun
    /\ sh = NoShift
    /\ \E d \in Dirs(MaxPath) :
         ex = [NoExec EXCEPT !.pc = "loop", !.dirs = d, !.sr.i = 1]

NextSearch ==
    \/ SearchSkip
    \/ SearchTry
    \/ SearchFault
    \/ SearchFinish

SpecSearch == InitSearch /\ [][NextSearch]_vars

\* execve_or_shebang on the array child_proc builds, for every argument count
InitShebang ==
    /\ InitQuiet
    /\ penv = NoEnv
    /\ rv = NoRun
    /\ ex = NoExec
    /\ \E n \in 1..MaxArgs :
         sh = [NoShift EXCEPT !.pc = "call", !.n = n, !.cap = ArgvCapacity(n),
                              !.mem = BuildArgv(n), !.before = BuildArgv(n)]

NextShebang ==
    \/ ShDirect
    \/ ShShift
    \/ ShFault
    \/ ShExec
    \/ ShRestore

SpecShebang == InitShebang /\ [][NextShebang]_vars

\* the launch from an original process with other threads: one of them may
\* be inside the allocator at fork()
InitThreads ==
    /\ InitProcess({StdOpen}, {NoRedir}, {FALSE}, BOOLEAN)
    /\ penv = NoEnv
    /\ rv = NoRun
    /\ sh = NoShift
    /\ ex = NoExec

SpecThreads == InitThreads /\ [][Launch]_vars

\* ------------------------------------------------------------------- claims
Waiters == 1..NumWaiters
Collected(w) == waiter[w].pc = "done" /\ waiter[w].how = "collected"

\* C1: the wait_for call that collects the child's status returns C for a
\* child that exited with code C (0..255) and 128+S for a child killed by
\* signal S (1..31), with or without a core dump.
C1_WaitOutcome ==
    \A w \in Waiters :
        Collected(w) =>
            /\ \A c \in 0..MaxExit :
                 cstatus = ExitStatus(c) => waiter[w].ret = c
            /\ \A sg \in 1..MaxSig, core \in BOOLEAN :
                 cstatus = SigStatus(sg, core) => waiter[w].ret = 128 + sg

C1_Witness ==
    \E w \in Waiters :
        Collected(w) /\ cstatus = SigStatus(MaxSig, TRUE) /\ waiter[w].ret = 128 + MaxSig

\* C2: process_exited returns false (Running) whenever it finds the child
\* not yet terminated, and true (Terminated) when it is called after the
\* child has exited and before any wait_for call.
C2_PollReportsState ==
    polls.called =>
        /\ polls.saw = "alive" => polls.ret = FALSE
        /\ (polls.saw = "zombie" /\ ~polls.waited) => polls.ret = TRUE

\* C3: a wait_for call on a child that has already been collected (by
\* another wait_for, or by a poll that won the race) returns 0; no wait_for
\* call returns the error value -1.
C3_WaitAfterCollected ==
    \A w \in Waiters :
        waiter[w].pc = "done" =>
            /\ waiter[w].ret # 0 - 1
            /\ waiter[w].how \in {"collected", "echild"}
            /\ waiter[w].how = "echild" => waiter[w].ret = 0

C3_Witness ==
    \E w1, w2 \in Waiters :
        /\ Collected(w1)
        /\ waiter[w2].pc = "done" /\ waiter[w2].how = "echild" /\ waiter[w2].ret = 0

\* C4: once mpp_execvpe has returned (every candidate failed, or the direct
\* path did), the child does nothing but _exit(1): it never replaces its
\* image nor returns, its wait status is "exited with 1", and the wait_for
\* call that collects it returns 1.
C4_ExecFailureExit ==
    /\ [](cpc = "exit1" =>
            /\ cstatus = ExitStatus(1)
            /\ \A w \in Waiters : Collected(w) => waiter[w].ret = 1)
    /\ [][cpc = "exec_failed" => cpc' \in {"exec_failed", "exit1", "dead"}]_vars

C4_Witness ==
    /\ cpc = "exit1"
    /\ cfg.file = "prog" /\ cfg.npath = MaxPath /\ search.i > cfg.npath
    /\ \E w \in Waiters : Collected(w) /\ waiter[w].ret = 1

\* C5: terminate_process sends SIGKILL when force is true and SIGTERM
\* otherwise, and changes nothing about the child's collection or any
\* wait_for call; and for a child alive when terminate_process(force=true)
\* is called, the wait_for call that collects it returns 137, whether that
\* call was blocked before the signal was sent or made after.
C5_TerminateThenWait ==
    /\ [](hist.sig # 0 => hist.sig = (IF hist.force THEN SIGKILL ELSE SIGTERM))
    /\ [](hist.killedLive =>
            \A w \in Waiters : Collected(w) => waiter[w].ret = 128 + SIGKILL)
    /\ [][(\E force \in BOOLEAN : Terminate(force)) =>
            /\ proc' = proc /\ cstatus' = cstatus /\ waiter' = waiter
            /\ (proc = "alive" /\ hist'.force => pending' = SIGKILL)]_vars

C5_Witness ==
    /\ hist.killedLive /\ hist.early
    /\ \E w \in Waiters : Collected(w) /\ waiter[w].ret = 137

\* C6: when fork fails create_process_impl throws, no child exists, and the
\* handle, the descriptor table and the six pipe slots are as they were.
C6_ForkFailure ==
    spawned = "failed" =>
        LET l == Layout(cfg.pre, cfg.redir, cfg.merge, cfg.late)
        IN  /\ proc = "none" /\ cpc = "none"
            /\ info = InitInfo
            /\ pfds = l.fds
            /\ ppipes = l.pipes

C6_Witness ==
    /\ spawned = "failed"
    /\ ~cfg.merge /\ cfg.redir = NoRedir
    /\ {RD[s] : s \in Streams} \cup {WR[s] : s \in Streams} \subseteq Held(pfds)

\* C7: in the duplicated process control never leaves child_proc into the
\* caller's code, whichever step fails, a failed chdir included.
C7_ChildNeverReturns == cpc # "escaped"

\* C8: after the sweep no descriptor above 2 is open in the child, whatever
\* was open at fork time, and the sweep has closed none of 0, 1, 2.
C8_SweepClosesAll ==
    cpc = "chdir" =>
        /\ \A fd \in Fds : fd > STDERR_FILENO => cfds[fd] = Closed
        /\ \A fd \in 0..STDERR_FILENO : cfds[fd] = preSweep[fd]

\* the StreamPipes that exist and are not redirected, and their ends
PipedStreams == {s \in Streams : ~cfg.redir[s] /\ (s = "err" => ~cfg.merge)}
PipeEnds == {RD[s] : s \in PipedStreams} \cup {WR[s] : s \in PipedStreams}
ParentEnds == {WR["in"], RD["out"], RD["err"]} \cap PipeEnds
ChildEnds == PipeEnds \ ParentEnds
ChildSlot(e) == CASE e = RD["in"]  -> {STDIN_FILENO}
                  [] e = WR["out"] -> IF cfg.merge THEN {STDOUT_FILENO, STDERR_FILENO}
                                      ELSE {STDOUT_FILENO}
                  [] e = WR["err"] -> {STDERR_FILENO}
                  [] OTHER         -> {}

\* C9: once create_process_impl has returned and the child has replaced its
\* image, of the ends of the non-redirected pipes the original process holds
\* exactly stdin-write, stdout-read and stderr-read, and the child holds
\* exactly the opposite ends, each on its standard slot and nowhere else,
\* with merge_outputs false and true.
C9_PipeEndOwnership ==
    (spawned = "ok" /\ proc = "alive" /\ cpc = "running") =>
        /\ Held(pfds) \cap PipeEnds = ParentEnds
        /\ Held(cfds) \cap PipeEnds = ChildEnds
        /\ \A e \in ChildEnds : {fd \in Fds : cfds[fd] = e} = ChildSlot(e)

RECURSIVE Segments(_)
Segments(s) ==
    IF \A k \in 1..Len(s) : s[k] # ":" THEN <<s>>
    ELSE LET k == Min({j \in 1..Len(s) : s[j] = ":"})
         IN  <<SubSeq(s, 1, k - 1)>> \o Segments(SubSeq(s, k + 1, Len(s)))

\* C11: for a search-path string of N colon-separated segments, the vector
\* effective_pathv returns holds exactly N candidate prefixes in the
\* segments' order, then the terminator; an empty segment gives "." and a
\* non-empty one is kept unchanged.
C11_ResolverPrefixes ==
    (rv.pc = "returned" /\ rv.ret # NULLPTR) =>
        LET segs == Segments(rv.path)
            N    == Len(segs)
        IN  /\ Len(rv.pathv) = N + 1
            /\ \A k \in 1..N : rv.pathv[k] \notin {NULLPTR, Uninit}
            /\ rv.pathv[N + 1] = NULLPTR
            /\ \A k \in 1..N :
                 Prefixes(rv)[k] = IF segs[k] = <<>> THEN <<".">> ELSE segs[k]

C11_Witness ==
    /\ rv.pc = "returned" /\ rv.ret # NULLPTR
    /\ rv.path = <<":", "a", ":">>
    /\ Prefixes(rv) = << <<".">>, <<"a">>, <<".">> >>
    /\ rv.pathv[4] = NULLPTR

\* C12 as stated: the search-path string effective_pathv works on is the
\* fixed default both when PATH is absent from the environment and when it
\* is set to the empty string, and PATH's value in every other case.
C12_DefaultWhenAbsentOrEmpty ==
    rv.pc # "idle" =>
        rv.path = IF ~penv.set \/ penv.val = <<>> THEN default_path_env ELSE penv.val

\* C12: the search-path string effective_pathv works on is the fixed
\* default exactly when PATH is absent from the environment; a PATH that is
\* set is used as it is, the empty string included, which is one empty
\* segment and so the single prefix ".".
C12_DefaultWhenAbsent ==
    /\ rv.pc # "idle" =>
         rv.path = IF ~penv.set THEN default_path_env ELSE penv.val
    /\ (rv.pc = "returned" /\ rv.ret # NULLPTR /\ penv.set /\ penv.val = <<>>) =>
         Prefixes(rv) = << <<".">> >>

C12_Witness ==
    /\ rv.pc = "returned" /\ rv.ret # NULLPTR
    /\ penv.set /\ penv.val = <<>>
    /\ rv.path = <<>> /\ rv.count = 1
    /\ Prefixes(rv) = << <<".">> >>

\* the errors after which the search goes on to the next candidate
ContinueErrnos == {"ENOENT", "ENOTDIR", "EACCES", "ELOOP", "ESTALE", "ENODEV", "ETIMEDOUT"}
\* the loop ran past the last candidate
Exhausted == ex.pc = "returned" /\ ex.sr.i > Len(ex.dirs)

\* C13 as stated: a candidate is attempted only after every earlier candidate
\* failed with one of the seven listed errors; any other failure ends the
\* search; and when the candidates are exhausted and one of them failed with
\* EACCES, errno is EACCES at the end.
C13_SearchOrderAsStated ==
    /\ \A k \in 1..Len(ex.log) :
         ex.log[k] # "skipped" => \A j \in 1..(k - 1) : ex.log[j] \in ContinueErrnos
    /\ \A k \in 1..Len(ex.log) :
         ex.log[k] \notin ContinueErrnos \cup {"skipped"} =>
             k = Len(ex.log) /\ ex.pc \in {"returned", "replaced"}
    /\ (Exhausted /\ \E k \in 1..Len(ex.log) : ex.log[k] = "EACCES") =>
         ex.sr.errno = "EACCES"

\* C13: candidates are taken in order, one log entry each. A candidate too
\* long for absolute_path is skipped without being attempted and the search
\* goes on; a candidate is attempted only after every earlier one was
\* skipped or failed with one of the seven listed errors; an attempt that
\* fails with any other error ends the search at once with that errno; and
\* when the loop runs past the last candidate, errno is EACCES if any
\* attempt failed with EACCES, else what the last candidate left
\* (ENAMETOOLONG for a skipped one).
C13_SearchOrder ==
    /\ Len(ex.log) <= Len(ex.dirs)
    /\ \A k \in 1..Len(ex.log) :
         (ex.log[k] = "skipped") <=> TooLong(Len(ProgName), ex.dirs[k])
    /\ \A k \in 1..Len(ex.log) :
         ex.log[k] # "skipped" =>
             \A j \in 1..(k - 1) : ex.log[j] \in ContinueErrnos \cup {"skipped"}
    /\ \A k \in 1..Len(ex.log) :
         ex.log[k] \notin ContinueErrnos \cup {"skipped"} =>
             /\ k = Len(ex.log)
             /\ ex.pc = IF ex.log[k] = "ok" THEN "replaced" ELSE "returned"
             /\ ex.log[k] # "ok" => ex.sr.errno = ex.log[k]
    /\ (ex.pc = "loop" /\ ex.log # <<>>) => ex.sr.i = Len(ex.log) + 1
    /\ Exhausted =>
         /\ Len(ex.log) = Len(ex.dirs)
         /\ ex.sr.errno =
              IF \E k \in 1..Len(ex.log) : ex.log[k] = "EACCES" THEN "EACCES"
              ELSE IF ex.log[Len(ex.log)] = "skipped" THEN "ENAMETOOLONG"
              ELSE ex.log[Len(ex.log)]

C13_Witness ==
    /\ Exhausted
    /\ Len(ex.log) = MaxPath
    /\ ex.log[1] = "EACCES"
    /\ ex.log[MaxPath] = "ENOENT"
    /\ ex.sr.errno = "EACCES"

\* C14: the interpreter fallback is attempted exactly when execve(file)
\* failed with ENOEXEC; /bin/sh is then executed with the vector
\* [/bin/sh, file, argv[1], ..., argv[n-1], nullptr]; and when that execve
\* fails too, the vector is, slot for slot up to and including the
\* terminator, what it was before the call.
C14_InterpreterFallback ==
    /\ (sh.pc \in {"shift", "shexec", "restore", "fault"} \/ sh.e2 # "none")
           <=> sh.e1 = "ENOEXEC"
    /\ (sh.pc = "returned" /\ sh.e1 # "ENOEXEC") => sh.mem = sh.before
    /\ sh.e2 # "none" =>
           sh.seen = [k \in 0..(sh.n + 1) |->
                         IF k = 0 THEN ShCell
                         ELSE IF k = 1 THEN FileCell
                         ELSE IF k <= sh.n THEN ArgCell(k - 1)
                         ELSE NullCell]
    /\ sh.pc = "returned" =>
           /\ NullIndex(sh.mem) = sh.n
           /\ \A k \in 0..sh.n : sh.mem[k] = sh.before[k]

C14_Witness ==
    /\ sh.pc = "returned"
    /\ sh.n = MaxArgs
    /\ sh.e1 = "ENOEXEC" /\ sh.e2 = "EACCES"
    /\ Vector(sh.mem) = Vector(sh.before)

\* C15: the array child_proc hands to the exec search has one slot more
\* than the n arguments and their terminator, and every index the
\* interpreter fallback's shift reads or writes (0..n+1) is inside it.
C15_ShiftInsideArray ==
    \A k \in sh.touched : k >= 0 /\ k < sh.cap

\* C16: between fork() and the image replacement the child calls no
\* allocator and takes no lock, so a child duplicated while another thread
\* of the original process holds the allocator's lock is never left waiting
\* for that lock.
C16_NoAllocationAfterFork == cpc # "alloc_wait"

\* C17: when waitpid(pid, nullptr, WNOHANG) answers ECHILD, process_exited
\* throws nothing; it returns true (Terminated) when the disposition of
\* SIGCHLD is not SIG_IGN, and when it is SIG_IGN it returns true exactly
\* when /proc/<pid> does not exist, false (Running) otherwise.
C17_PollOnEchild ==
    [][(Poll /\ proc = "gone") =>
          /\ ~PollThrows(0 - 1, "ECHILD", TRUE)
          /\ polls'.saw = "gone"
          /\ ~sigIgn => polls'.ret = TRUE
          /\ sigIgn => (polls'.ret = TRUE <=> ~ProcPathExists)]_vars

C17_Witness ==
    /\ polls.called /\ polls.saw = "gone"
    /\ sigIgn /\ pidReused
    /\ polls.ret = FALSE

\* C18: process_exited does not change what a later wait_for returns: with
\* SIGCHLD not ignored and no other wait_for collecting the child, the
\* wait_for call returns C for a child that exited with code C and 128+S
\* for one killed by signal S, however many process_exited calls came
\* between the child's end and the wait.
C18_PollLeavesWaitAlone ==
    \A w \in Waiters :
        (/\ waiter[w].pc = "done"
         /\ ~sigIgn
         /\ \A v \in Waiters \ {w} : ~Collected(v))
            => waiter[w].ret = ExitOutcome(cstatus)

\* the description each standard slot of the child is to refer to
SlotTarget(slot) ==
    CASE slot = STDIN_FILENO  -> IF cfg.redir["in"] THEN TARGET["in"] ELSE RD["in"]
      [] slot = STDOUT_FILENO -> IF cfg.redir["out"] THEN TARGET["out"] ELSE WR["out"]
      [] slot = STDERR_FILENO ->
            IF cfg.merge THEN (IF cfg.redir["out"] THEN TARGET["out"] ELSE WR["out"])
            ELSE IF cfg.redir["err"] THEN TARGET["err"] ELSE WR["err"]

\* C19: after the child closed the unused ends, duplicated onto 0, 1, 2 and
\* closed the original pipe descriptors, slots 0, 1 and 2 are open and refer
\* to the stdin pipe's read end, the stdout pipe's write end and the stderr
\* pipe's write end (the stdout write end when merging), whatever numbers
\* the pipe ends had, 0, 1 and 2 included.
C19_SlotsArranged ==
    (proc = "alive" /\ cpc = "vectors") =>
        \A slot \in {STDIN_FILENO, STDOUT_FILENO, STDERR_FILENO} :
            cfds[slot] = SlotTarget(slot)

\* C20: effective_pathv writes only inside the block of pathvsize +
\* pathsize bytes it allocates: the string copy starts at byte offset
\* pathvsize, and every byte written (the copy, the terminators put over the
\* separators, the count+1 pointer slots) lies below pathvsize + pathsize.
C20_WritesInsideBlock ==
    /\ rv.pc \in {"split", "fault"} => rv.p0 = rv.pathvsize
    /\ \A w \in rv.written : w >= 0 /\ w < rv.pathvsize + rv.pathsize

====
